---- MODULE Spec2Model ----
(***************************************************************************)
(* Mars Shot: the fixed-step loop driver, the gravity/collision engine,    *)
(* the game-mode state machine and the upgrade economy, modelled from the  *)
(* two drafts of the game: src/game.js ("game") and src/unnamed/part_000   *)
(* ("part000").                                                            *)
(*                                                                         *)
(* Units.  Time is counted in 1/120 s, so the fixed step of 1/60 s is 2    *)
(* and the 0.25 s clamp is 30.  Lengths are counted in 1/25 px, so that    *)
(* every product with the scale factor (0.6, 1.0 or 1.2, kept as 15, 25    *)
(* or 30 twenty-fifths) is an integer.  Fuel is counted in halves, the     *)
(* amount one thrust tick burns.  Velocities are counted in tenths of a    *)
(* length unit per tick.  Square roots and quotients are rounded down.     *)
(*                                                                         *)
(* Coordinates.  Positions are reals in the code.  The model keeps of the  *)
(* rocket's position what the code tests about it: the set of bodies whose *)
(* collision disc holds it (near), whether it is beyond the lost-in-space  *)
(* boundary (far) and its distance to the destination (dMars).  The        *)
(* integration pos += vel is a choice among the position classes that the  *)
(* geometry of the current bodies allows.  A body's orbit angle is kept as *)
(* the number of orbitSpeed increments applied, modulo OrbitCycle.         *)
(***************************************************************************)
EXTENDS Integers, Sequences, FiniteSets, TLC

VARIABLES
    draft,       \* "game" (src/game.js) or "part000" (src/unnamed/part_000)
    gameData,    \* width, height, scaleFactor, accumulator, frameCount (kept modulo
                 \* TRAIL_EVERY); pausedTime is a history field: the time added by
                 \* paused frames since the accumulator was zeroed
    gameState,   \* mode, level, coins, closestDist, isThrusting, isPaused
    physics,     \* bodies, rocket, ghostTrail; ghostKept is a history field: the
                 \* resetGame calls the ghost trail has been kept through
    upgrades,    \* UpgradeSystem.upgrades
    levelsConfig,\* part000: whether levels.json was loaded ("loaded") or not ("null")
    dom,         \* display of #message and #nextLevelBtn
    pc,          \* position in loop(): "event" (between frames) or "loop"; "await"
                 \* while part000's init() awaits UIManager.init()
    steps,       \* loop()'s local step counter
    endEvents,   \* the endGame calls of the current attempt, in order
    mouse,       \* InputManager.mouse, in length units
    canvas,      \* the aiming line and the launch prediction drawn by the last
                 \* rendered frame (the line's ends, the prediction's first point
                 \* and starting velocity), null when none was drawn
    launched,    \* the rocket's exact position and velocity while they are those
                 \* launch() gave it: null before the launch and from the first
                 \* physics step the rocket is in
    uncaught,    \* the last exception that left a handler uncaught, "none" if none
    explosions,  \* the spawnExplosion calls of the current attempt, in order
    document     \* hidden: document.hidden; pausedAtHide is a history field: the
                 \* paused flag as it was when the document was last hidden

vars == <<draft, gameData, gameState, physics, upgrades, levelsConfig, dom,
          pc, steps, endEvents, mouse, canvas, launched, uncaught, explosions, document>>

(***************************************************************************)
(* Bounds of the model                                                     *)
(***************************************************************************)
MaxOverlap == 2      \* bodies whose collision discs hold the rocket at once
MaxRandom == 0       \* Math.random() draws are k/(MaxRandom+1), k in 0..MaxRandom
OrbitCycle == 2      \* orbit angles are counted modulo this many increments
MaxAge == 4          \* ticks a flight is followed for in Spec
MaxAcc == 21         \* frames are followed while the accumulator is below this
MaxGraceAge == 102   \* ... and to this age where the grace period is followed
ShopCoins == {0, 49, 50, 405, 2000}   \* coin totals the shop is entered with
MaxKept == 2         \* resets are followed while the ghost trail has been kept through fewer
MaxCoins == 60       \* flights are launched while coins are below this
MaxBought == 5          \* purchases are followed up to this many levels in SpecEconomy
MaxLaunchLevel == 2     \* the launch upgrade is followed up to this level in SpecAim
MaxPurchases == 1
MaxBurnAge == 202       \* ticks of a flight that runs the tank dry

Min(a, b) == IF a < b THEN a ELSE b
Max(a, b) == IF a > b THEN a ELSE b

U == 5 * 5                                  \* length units per pixel
Drafts == {"game", "part000"}
WindowSizes == {<<320, 200>>, <<1000, 800>>}  \* innerWidth, innerHeight
DistancesPx == {41, 200}                    \* rocket-to-destination distances
Deltas == {0, 1, 2, 40}                     \* wall-clock time between frames
RandomDraws == 0 .. MaxRandom

(***************************************************************************)
(* Configuration                                                           *)
(***************************************************************************)
LEVELS_DATA ==
    [levels |-> << [id |-> 1, asteroidCount |-> 3,  asteroidMinSize |-> 15, asteroidMaxSize |-> 25],
                   [id |-> 2, asteroidCount |-> 8,  asteroidMinSize |-> 15, asteroidMaxSize |-> 30],
                   [id |-> 3, asteroidCount |-> 14, asteroidMinSize |-> 18, asteroidMaxSize |-> 28],
                   [id |-> 4, asteroidCount |-> 20, asteroidMinSize |-> 20, asteroidMaxSize |-> 32] >>,
     upgrades |-> [fuel   |-> [baseCost |-> 50, maxLevel |-> 5],
                   thrust |-> [baseCost |-> 80, maxLevel |-> 5],
                   launch |-> [baseCost |-> 60, maxLevel |-> 5]]]

Tracks == {"fuel", "thrust", "launch"}

COLLISION_PADDING == IF draft = "game" THEN 15 ELSE 4
LANDING_REWARD == 100
MAX_DISTANCE_SCORE == 50
Infinity == -1            \* closestDist before any approach was recorded
step == 2                 \* 1/60 s
maxSteps == 5
MAX_DELTA == 30           \* 0.25 s
GRACE_AGE == 100
FUEL_BURN == 1                       \* 0.5 per thrust tick
TRAIL_EVERY == 5
ROCKET_TRAIL_LIMIT == 600
MAX_INPUT_DIST == 300

null == [type |-> "null"]

(***************************************************************************)
(* resize(): the scale factor min(w,h)/800 clamped to [0.6, 1.2], in       *)
(* twenty-fifths.                                                          *)
(***************************************************************************)
ScaleOf(w, h) ==
    LET raw == (Min(w, h) * U) \div 800
    IN  IF raw > 30 THEN 30 ELSE IF raw < 15 THEN 15 ELSE raw

(***************************************************************************)
(* new Body(...): radius is pre-scaled; vel and acc start at zero.         *)
(***************************************************************************)
Body(type, radius, s) ==
    [type |-> type, radius |-> radius * s, orbitCenter |-> FALSE,
     parentBody |-> 0, orbitRadius |-> 0, orbitAngle |-> 0, updated |-> FALSE,
     parentAngle |-> 0]

(***************************************************************************)
(* createSolarSystem(): sun, earth, moon, mars, saturn, 12 ring rocks and  *)
(* the level's asteroids, in this order.  rnd is the Math.random() draw.   *)
(***************************************************************************)
LevelConfigOfLevelOne(level) == LEVELS_DATA.levels[1]

\* A level without a definition: part000 falls back to its defaults, and
\* src/game.js throws on reading asteroidCount, after the fixed bodies were
\* built and before any asteroid is.
LevelConfig(level) ==
    IF (draft = "game" \/ levelsConfig = "loaded") /\ level \in DOMAIN LEVELS_DATA.levels
    THEN LEVELS_DATA.levels[level]
    ELSE IF draft = "game"
    THEN [id |-> level, asteroidCount |-> 0, asteroidMinSize |-> 0, asteroidMaxSize |-> 0]
    ELSE [id |-> level, asteroidCount |-> 3, asteroidMinSize |-> 6, asteroidMaxSize |-> 10]

createSolarSystem(gd, level, rnd) ==
    LET s == gd.scaleFactor
        minDim == Min(gd.width, gd.height)
        r1 == (minDim * 22 * U) \div 100
        r2 == (minDim * 35 * U) \div 100
        rSaturn == (minDim * 48 * U) \div 100
        frac(x) == (x * rnd) \div (MaxRandom + 1)
        sun == Body("sun", 30, s)
        earth == [Body("target_start", 10, s) EXCEPT !.orbitCenter = TRUE, !.orbitRadius = r1]
        moon == [Body("moon", 3, s) EXCEPT !.parentBody = 2, !.orbitRadius = 25 * s]
        mars == [Body("target_end", 9, s) EXCEPT !.orbitCenter = TRUE, !.orbitRadius = r2]
        saturn == [Body("saturn", 18, s) EXCEPT !.orbitCenter = TRUE, !.orbitRadius = rSaturn]
        ring == [Body("obstacle", 2, s) EXCEPT !.parentBody = 5,
                                              !.orbitRadius = 30 * s + frac(10 * s)]
        levelConfig == LevelConfig(level)
        minS == levelConfig.asteroidMinSize * s
        maxS == levelConfig.asteroidMaxSize * s
        zStart == r1 + 30 * s
        zEnd == IF draft = "part000" /\ level = 4 THEN rSaturn - 30 * s ELSE r2 - 30 * s
        sz == minS + frac(maxS - minS)
        asteroid == [type |-> "obstacle", radius |-> (sz * s) \div U, orbitCenter |-> TRUE,
                     parentBody |-> 0, orbitRadius |-> zStart + frac(zEnd - zStart),
                     orbitAngle |-> 0, updated |-> FALSE, parentAngle |-> 0]
    IN  <<sun, earth, moon, mars, saturn>>
        \o [i \in 1 .. 12 |-> ring]
        \o [i \in 1 .. levelConfig.asteroidCount |-> asteroid]

(***************************************************************************)
(* Body.update() of a non-rocket body: an orbiting body advances its angle *)
(* and takes the position and velocity that follow from it (updated: it    *)
(* has done so since it was constructed); the static sun stays.            *)
(***************************************************************************)
BodyUpdate(b) ==
    IF b.orbitCenter \/ b.parentBody # 0
    THEN [b EXCEPT !.orbitAngle = (b.orbitAngle + 1) % OrbitCycle, !.updated = TRUE]
    ELSE b

\* update() of the body at index i of bodies: a body on a parent's orbit
\* takes its position and velocity from the parent's as they are at that
\* moment (parentAngle: the parent's angle they were computed from).
BodyUpdateIn(bodies, i) ==
    LET b == bodies[i]
    IN  IF b.parentBody # 0
        THEN [BodyUpdate(b) EXCEPT !.parentAngle = bodies[b.parentBody].orbitAngle]
        ELSE BodyUpdate(b)

RECURSIVE UpdateFrom(_, _)
UpdateFrom(bodies, i) ==
    IF i > Len(bodies) THEN bodies
    ELSE UpdateFrom([bodies EXCEPT ![i] = BodyUpdateIn(bodies, i)], i + 1)

\* The bodies updated from the last to the first.
UpdateBodiesBackwards(bodies) ==
    LET n == Len(bodies)
        done[k \in 0 .. n] ==
            IF k = 0 THEN bodies
            ELSE [done[k - 1] EXCEPT ![n - k + 1] = BodyUpdateIn(done[k - 1], n - k + 1)]
    IN  done[n]

\* physics.bodies.forEach(b => b.update()): in iteration order.
UpdateBodies(bodies) == UpdateFrom(bodies, 1)

(***************************************************************************)
(* Vector: pairs of integers.  normalize() followed by mult(n) is ScaleTo; *)
(* normalize() leaves the zero vector as it is.                            *)
(***************************************************************************)
V == 10                                     \* velocity units per length unit

VAdd(a, b) == <<a[1] + b[1], a[2] + b[2]>>
VSub(a, b) == <<a[1] - b[1], a[2] - b[2]>>

RECURSIVE SqrtIn(_, _, _)
SqrtIn(n, lo, hi) ==
    IF lo >= hi THEN lo
    ELSE LET mid == (lo + hi + 1) \div 2
         IN  IF mid * mid <= n THEN SqrtIn(n, mid, hi) ELSE SqrtIn(n, lo, mid - 1)

Mag(v) == SqrtIn(v[1] * v[1] + v[2] * v[2], 0, Max(Max(v[1], -v[1]), Max(v[2], -v[2])) * 2)

ScaleTo(v, n) ==
    LET m == Mag(v)
    IN  IF m = 0 THEN <<0, 0>> ELSE <<(v[1] * n) \div m, (v[2] * n) \div m>>

\* cos and sin of k quarter turns: an orbit angle of k increments is kept on
\* the axes.
Cos4(k) == CASE k % 4 = 0 -> 1 [] k % 4 = 1 -> 0 [] k % 4 = 2 -> -1 [] OTHER -> 0
Sin4(k) == Cos4(k + 3)

\* gameData.cx, gameData.cy
Centre(gd) == <<(gd.width * U) \div 2, (gd.height * U) \div 2>>

(***************************************************************************)
(* Position and velocity of the launch body: where the constructor put it  *)
(* (on its orbit at angle 0, at rest) until its first update(), then       *)
(* centre + radius*(cos, sin) and radius*orbitSpeed*(-sin, cos), with      *)
(* orbitSpeed = 0.005.                                                     *)
(***************************************************************************)
EarthPos(b, gd) ==
    IF b.updated
    THEN VAdd(Centre(gd), <<b.orbitRadius * Cos4(b.orbitAngle), b.orbitRadius * Sin4(b.orbitAngle)>>)
    ELSE VAdd(Centre(gd), <<b.orbitRadius, 0>>)

EarthVel(b) ==
    LET speed == (b.orbitRadius * V * 5) \div 1000
    IN  IF b.updated
        THEN <<-(Sin4(b.orbitAngle) * speed), Cos4(b.orbitAngle) * speed>>
        ELSE <<0, 0>>

(***************************************************************************)
(* Geometry of the position classes.                                       *)
(*                                                                         *)
(* calculateGravity tests dist < collisionDist for every body.  Whether    *)
(* the discs of two bodies can hold the rocket in the same tick follows    *)
(* from the bodies' orbits: the least distance their centres come to is    *)
(* compared with the sum of their collision distances.                     *)
(***************************************************************************)
CollisionDist(b, gd) == b.radius + COLLISION_PADDING * gd.scaleFactor

\* Least and greatest distance of body i from the arena centre.
ReachLo(bodies, i) ==
    LET b == bodies[i]
    IN  IF b.orbitCenter THEN b.orbitRadius
        ELSE IF b.parentBody # 0
             THEN Max(0, bodies[b.parentBody].orbitRadius - b.orbitRadius)
             ELSE 0

ReachHi(bodies, i) ==
    LET b == bodies[i]
    IN  IF b.orbitCenter THEN b.orbitRadius
        ELSE IF b.parentBody # 0
             THEN bodies[b.parentBody].orbitRadius + b.orbitRadius
             ELSE 0

MinCenterDist(bodies, i, j) ==
    LET a == bodies[i]
        b == bodies[j]
    IN  IF a.parentBody = j THEN a.orbitRadius
        ELSE IF b.parentBody = i THEN b.orbitRadius
        ELSE IF a.parentBody # 0 /\ a.parentBody = b.parentBody
             THEN Max(a.orbitRadius - b.orbitRadius, b.orbitRadius - a.orbitRadius)
        ELSE Max(0, Max(ReachLo(bodies, i) - ReachHi(bodies, j),
                        ReachLo(bodies, j) - ReachHi(bodies, i)))

CanOverlap(bodies, gd, i, j) ==
    MinCenterDist(bodies, i, j) < CollisionDist(bodies[i], gd) + CollisionDist(bodies[j], gd)

\* bodies.find(b => b.type === type): the first index, 0 when there is none.
Find(bodies, type) ==
    IF \E i \in DOMAIN bodies : bodies[i].type = type
    THEN CHOOSE i \in DOMAIN bodies :
            /\ bodies[i].type = type
            /\ \A j \in 1 .. (i - 1) : bodies[j].type # type
    ELSE 0

\* One body of each kind stands for the bodies the code treats alike.
Candidates(bodies) ==
    {i \in DOMAIN bodies :
        \A j \in 1 .. (i - 1) :
            <<bodies[j].type, bodies[j].orbitCenter>> # <<bodies[i].type, bodies[i].orbitCenter>>}

NearSets(bodies, gd) ==
    {S \in SUBSET Candidates(bodies) :
        /\ Cardinality(S) <= MaxOverlap
        /\ \A i \in S : \A j \in S : i < j => CanOverlap(bodies, gd, i, j)}

FarDist(gd) == 2 * Max(gd.width, gd.height) * U

Positions(bodies, gd) ==
    LET mars == Find(bodies, "target_end")
    IN  {[near |-> S, far |-> FALSE, dMars |-> CollisionDist(bodies[mars], gd) - 1] :
            S \in {T \in NearSets(bodies, gd) : mars \in T}}
        \cup {[near |-> S, far |-> FALSE, dMars |-> 200 * U] :
            S \in {T \in NearSets(bodies, gd) : mars \notin T /\ T # {}}}
        \cup {[near |-> {}, far |-> FALSE, dMars |-> d * U] : d \in DistancesPx}
        \cup {[near |-> {}, far |-> TRUE, dMars |-> FarDist(gd) + 1]}

(***************************************************************************)
(* endGame(success, reason).  W bundles what a physics step may change:    *)
(* gs (gameState), ph (physics), dom, ev (endEvents), fx (explosions).    *)
(***************************************************************************)
distScoreUnfloored(closestDist) ==
    IF closestDist = Infinity THEN 0 ELSE MAX_DISTANCE_SCORE - (closestDist \div (2 * U))

distScore(closestDist) ==
    IF closestDist = Infinity
    THEN 0
    ELSE Max(0, MAX_DISTANCE_SCORE - (closestDist \div (2 * U)))

EarnedIgnoringReason(success, reason, closestDist) ==
    IF success THEN LANDING_REWARD ELSE distScore(closestDist)

Earned(success, reason, closestDist) ==
    IF success THEN LANDING_REWARD
    ELSE IF reason = "crashed" THEN 0
    ELSE distScore(closestDist)

endGameKeepsRocket(W, success, reason) ==
    [W EXCEPT !.gs.coins = @ + Earned(success, reason, W.gs.closestDist),
              !.ev = Append(@, [success |-> success, reason |-> reason,
                                earned |-> Earned(success, reason, W.gs.closestDist),
                                age |-> W.ph.rocket.age])]

endGame(W, success, reason) ==
    LET earned == Earned(success, reason, W.gs.closestDist)
    IN  [gs |-> [W.gs EXCEPT !.mode = "ENDED", !.isThrusting = FALSE, !.isPaused = FALSE,
                             !.coins = @ + earned],
         ph |-> [W.ph EXCEPT !.rocket = null,
                             !.ghostTrail = IF Len(W.ph.rocket.trail) > 0
                                            THEN W.ph.rocket.trail ELSE @,
                             !.ghostKept = IF Len(W.ph.rocket.trail) > 0 THEN 0 ELSE @],
         dom |-> [message |-> "block",
                  nextLevelBtn |-> IF success THEN "inline-block" ELSE "none"],
         ev |-> Append(W.ev, [success |-> success, reason |-> reason, earned |-> earned,
                              age |-> W.ph.rocket.age]),
         fc |-> W.fc, fx |-> W.fx]

(***************************************************************************)
(* calculateGravity(): thrust and fuel, then the bodies in order with the  *)
(* collision dispatch, then the closest approach.                          *)
(***************************************************************************)
ThrustPastEmpty(W) ==
    IF W.gs.isThrusting
    THEN [W EXCEPT !.ph.rocket.fuel = @ - FUEL_BURN]
    ELSE W

Thrust(W) ==
    IF W.gs.isThrusting /\ W.ph.rocket.fuel > 0
    THEN [W EXCEPT !.ph.rocket.fuel = Max(0, @ - FUEL_BURN)]
    ELSE W

\* The first body in iteration order whose collision disc holds the rocket.
FirstHit(W) ==
    LET hits == {i \in DOMAIN W.ph.bodies : i \in W.ph.rocket.pos.near}
    IN  IF hits = {} THEN 0 ELSE CHOOSE i \in hits : \A j \in hits : i <= j

CollideNoGrace(W, body) ==
    IF body.type = "target_end" THEN endGame(W, TRUE, "landed")
    ELSE endGame(W, FALSE, "crashed")

\* spawnExplosion(x, y, color) at position pos with the colour of body.
spawnExplosion(W, pos, body) == [W EXCEPT !.fx = Append(@, [pos |-> pos, body |-> body.type])]

\* The collision dispatch of src/game.js: the rocket's position is read
\* before endGame() and the explosion is spawned there after it.
CollideGame(W, body) ==
    LET r == W.ph.rocket.pos
    IN  IF body.type = "target_end" THEN endGame(W, TRUE, "landed")
        ELSE IF body.type = "target_start"
             THEN (IF W.ph.rocket.age > GRACE_AGE
                   THEN spawnExplosion(endGame(W, FALSE, "crashed"), r, body)
                   ELSE W)
        ELSE spawnExplosion(endGame(W, FALSE, "crashed"), r, body)

\* The collision dispatch of src/unnamed/part_000: the explosion is spawned
\* after endGame(), and only if physics.rocket is still there.
CollidePart000(W, body) ==
    IF body.type = "target_start" /\ W.ph.rocket.age <= GRACE_AGE THEN W
    ELSE LET W1 == IF body.type = "target_end" THEN endGame(W, TRUE, "landed")
                   ELSE endGame(W, FALSE, "crashed")
             W2 == IF W1.ph.rocket # null
                   THEN spawnExplosion(W1, W1.ph.rocket.pos, body)
                   ELSE W1
         IN  [W2 EXCEPT !.ph.rocket = null]

Collide(W, body) == IF draft = "game" THEN CollideGame(W, body) ELSE CollidePart000(W, body)

ClosestApproachLatest(W) ==
    LET mars == Find(W.ph.bodies, "target_end")
    IN  IF mars # 0 /\ W.ph.rocket # null
        THEN [W EXCEPT !.gs.closestDist = W.ph.rocket.pos.dMars]
        ELSE W

ClosestApproach(W) ==
    LET mars == Find(W.ph.bodies, "target_end")
        d == W.ph.rocket.pos.dMars
    IN  IF mars # 0 /\ W.ph.rocket # null
           /\ (W.gs.closestDist = Infinity \/ d < W.gs.closestDist)
        THEN [W EXCEPT !.gs.closestDist = d]
        ELSE W

calculateGravity(W) ==
    IF W.ph.rocket = null \/ Len(W.ph.bodies) = 0 THEN W
    ELSE LET W1 == [Thrust(W) EXCEPT !.ph.rocket.acc = 1]
             hit == FirstHit(W1)
         IN  IF hit # 0 THEN Collide(W1, W1.ph.bodies[hit])
             ELSE ClosestApproach(W1)

(***************************************************************************)
(* One fixed physics step (the body of loop()'s while, physicsStep in      *)
(* part000): calculateGravity, every body's update, then the rocket's      *)
(* update (age, position p) and the lost-in-space test.                    *)
(***************************************************************************)
TrailPush(trail, point) ==
    LET pushed == Append(trail, point)
    IN  IF Len(pushed) > ROCKET_TRAIL_LIMIT THEN Tail(pushed) ELSE pushed

RocketUpdate(r, p, frameCount) ==
    [r EXCEPT !.age = @ + 1, !.pos = p, !.acc = 0,
              !.trail = IF frameCount % TRAIL_EVERY = 0 THEN TrailPush(@, r.age + 1) ELSE @]

LostInSpace(W) ==
    IF W.ph.rocket.pos.far THEN endGame(W, FALSE, "lost_space") ELSE W

physicsStepLostFirst(W, p) ==
    LET W1 == calculateGravity(W)
        W2 == [W1 EXCEPT !.ph.bodies = UpdateBodies(@)]
        W3 == IF W2.ph.rocket # null THEN LostInSpace(W2) ELSE W2
    IN  IF W3.ph.rocket # null
        THEN [W3 EXCEPT !.ph.rocket = RocketUpdate(@, p, W.fc)]
        ELSE W3

physicsStep(W, p) ==
    LET W1 == calculateGravity(W)
        W2 == [W1 EXCEPT !.ph.bodies = UpdateBodies(@)]
    IN  IF W2.ph.rocket # null
        THEN LostInSpace([W2 EXCEPT !.ph.rocket = RocketUpdate(@, p, W.fc)])
        ELSE W2

(***************************************************************************)
(* UpgradeSystem                                                           *)
(***************************************************************************)
InitUpgrades ==
    [k \in Tracks |-> [level |-> 1, cost |-> LEVELS_DATA.upgrades[k].baseCost,
                       max |-> LEVELS_DATA.upgrades[k].maxLevel]]

\* getStats().maxFuel = 100 + (level - 1) * 30, in halves.
maxFuelBase(up) == 2 * 100

maxFuel(up) == 2 * (100 + (up.fuel.level - 1) * 30)

\* Math.floor(cost * 1.5)
NextCost(cost) == (cost * 3) \div 2

CanBuyOnCredit(up, coins, type) == up[type].level < up[type].max

CanBuyPastMax(up, coins, type) == coins >= up[type].cost

CanBuy(up, coins, type) == up[type].level < up[type].max /\ coins >= up[type].cost

\* A purchase that also tops the live rocket up to the new capacity.
buyRefuels(type) ==
    /\ pc = "event"
    /\ IF CanBuy(upgrades, gameState.coins, type)
       THEN /\ gameState' = [gameState EXCEPT !.coins = @ - upgrades[type].cost]
            /\ upgrades' = [upgrades EXCEPT ![type].level = @ + 1,
                                            ![type].cost = NextCost(@)]
            /\ physics' = IF physics.rocket # null
                          THEN [physics EXCEPT !.rocket.fuel = maxFuel(upgrades')]
                          ELSE physics
       ELSE UNCHANGED <<gameState, upgrades, physics>>
    /\ UNCHANGED <<document, explosions, uncaught, mouse, canvas, launched, draft, gameData, levelsConfig, dom, pc, steps, endEvents>>

buy(type) ==
    /\ pc = "event"
    /\ IF CanBuy(upgrades, gameState.coins, type)
       THEN /\ gameState' = [gameState EXCEPT !.coins = @ - upgrades[type].cost]
            /\ upgrades' = [upgrades EXCEPT ![type].level = @ + 1,
                                            ![type].cost = NextCost(@)]
       ELSE UNCHANGED <<gameState, upgrades>>
    /\ UNCHANGED <<document, explosions, uncaught, mouse, canvas, launched, draft, gameData, physics, levelsConfig, dom, pc, steps, endEvents>>

(***************************************************************************)
(* The launch vector and the launch prediction                             *)
(***************************************************************************)
\* getStats().launchForceMin and launchForceMax, in velocity units.
launchForceMin(gd) == (15 * gd.scaleFactor * V) \div 10
launchForceMax(up, gd) == (5 + (up.launch.level - 1)) * gd.scaleFactor * V

getLaunchVectorOfAim(bodies, m, up, gd) ==
    LET earth == Find(bodies, "target_start")
    IN  IF earth = 0 THEN [vec |-> <<0, 0>>, power |-> 0]
        ELSE LET dir == VSub(m, EarthPos(bodies[earth], gd))
                 dist == Mag(dir)
                 cap == MAX_INPUT_DIST * gd.scaleFactor
                 force == launchForceMin(gd)
                          + ((launchForceMax(up, gd) - launchForceMin(gd)) * Min(dist, cap)) \div cap
             IN  [vec |-> ScaleTo(dir, force), power |-> (Min(dist, cap) * 1000) \div cap]

\* getLaunchVector(): the impulse along mouse - earth.pos, its size growing
\* with the distance up to MAX_INPUT_DIST, plus earth.vel; power in 1/1000.
getLaunchVector(bodies, m, up, gd) ==
    LET earth == Find(bodies, "target_start")
    IN  IF earth = 0 THEN [vec |-> <<0, 0>>, power |-> 0]
        ELSE LET dir == VSub(m, EarthPos(bodies[earth], gd))
                 dist == Mag(dir)
                 cap == MAX_INPUT_DIST * gd.scaleFactor
                 force == launchForceMin(gd)
                          + ((launchForceMax(up, gd) - launchForceMin(gd)) * Min(dist, cap)) \div cap
             IN  [vec |-> VAdd(ScaleTo(dir, force), EarthVel(bodies[earth])),
                  power |-> (Min(dist, cap) * 1000) \div cap]

\* The rocket's position in launch(): earth.pos plus the normalized launch
\* velocity times earth.radius + 25*scaleFactor.
LaunchPoint(bodies, vec, gd) ==
    LET earth == bodies[Find(bodies, "target_start")]
    IN  VAdd(EarthPos(earth, gd), ScaleTo(vec, earth.radius + 25 * gd.scaleFactor))

\* What a rendered frame draws of the launch: in mode IDLE, when the launch
\* body is there, the aiming line from earth.pos to the mouse and the
\* prediction, which starts at earth.pos plus the normalized aim times
\* earth.radius + 20*scaleFactor with the launch vector as velocity.
PredictionFrom(bodies, m, up, gd) ==
    LET earth == bodies[Find(bodies, "target_start")]
    IN  [aimFrom |-> EarthPos(earth, gd),
         aimTo |-> m,
         simPos |-> VAdd(EarthPos(earth, gd),
                         ScaleTo(VSub(m, EarthPos(earth, gd)),
                                 earth.radius + 20 * gd.scaleFactor)),
         simVel |-> getLaunchVector(bodies, m, up, gd).vec]

PredictionInAnyMode(gs, bodies, m, up, gd) ==
    IF Find(bodies, "target_start") # 0 THEN PredictionFrom(bodies, m, up, gd) ELSE null

Prediction(gs, bodies, m, up, gd) ==
    IF gs.mode = "IDLE" /\ Find(bodies, "target_start") # 0
    THEN PredictionFrom(bodies, m, up, gd)
    ELSE null

(***************************************************************************)
(* loop(): one rendered frame, in three parts.  LoopStart adds the clamped *)
(* wall-clock delta and returns at once when paused; Tick is one pass of   *)
(* the while loop; LoopEnd leaves the while loop and ends the frame.  No   *)
(* other handler runs between LoopStart and LoopEnd.                       *)
(***************************************************************************)
World == [gs |-> gameState, ph |-> physics, dom |-> dom, ev |-> endEvents,
          fc |-> gameData.frameCount, fx |-> explosions]

Clamp(d) == IF d > MAX_DELTA THEN MAX_DELTA ELSE d

NeverPaused == FALSE

PausedReturn == gameState.isPaused

LoopStart(d) ==
    /\ pc = "event"
    /\ gameData' = [gameData EXCEPT !.accumulator = @ + Clamp(d),
                                    !.pausedTime = IF PausedReturn THEN @ + Clamp(d) ELSE @]
    /\ pc' = IF PausedReturn THEN "event" ELSE "loop"
    /\ steps' = 0
    /\ UNCHANGED <<document, explosions, uncaught, mouse, canvas, launched, draft, gameState, physics, upgrades, levelsConfig, dom, endEvents>>

WhileCondNoFloor == steps < maxSteps

WhileCond == gameData.accumulator >= step /\ steps < maxSteps

Tick(p) ==
    /\ pc = "loop"
    /\ WhileCond
    /\ LET W == physicsStep(World, p)
       IN  /\ gameState' = W.gs
           /\ physics' = W.ph
           /\ dom' = W.dom
           /\ endEvents' = W.ev
           /\ explosions' = W.fx
    /\ gameData' = [gameData EXCEPT !.accumulator = @ - step]
    /\ steps' = steps + 1
    /\ launched' = IF physics.rocket # null THEN null ELSE launched
    /\ UNCHANGED <<document, uncaught, mouse, canvas, draft, upgrades, levelsConfig, pc>>

LoopEnd ==
    /\ pc = "loop"
    /\ ~WhileCond
    /\ gameData' = [gameData EXCEPT !.frameCount = (@ + 1) % TRAIL_EVERY]
    /\ canvas' = Prediction(gameState, physics.bodies, mouse, upgrades, gameData)
    /\ pc' = "event"
    /\ steps' = 0
    /\ UNCHANGED <<document, explosions, uncaught, mouse, launched, draft, gameState, physics, upgrades, levelsConfig, dom,
                   endEvents>>

(***************************************************************************)
(* launch(e): the rocket is built at the launch body, offset by            *)
(* earth.radius + 25*scale along the launch vector, which is beyond the    *)
(* launch body's collision distance.                                       *)
(***************************************************************************)
LaunchPositions(bodies, gd) ==
    {p \in Positions(bodies, gd) : ~p.far /\ Find(bodies, "target_start") \notin p.near}

\* launch() of src/game.js, which returns when there is no launch body.
launchGuarded(p) ==
    IF Find(physics.bodies, "target_start") = 0
    THEN UNCHANGED vars
    ELSE /\ physics' = [physics EXCEPT !.rocket =
                           [type |-> "rocket", age |-> 0, fuel |-> maxFuel(upgrades), pos |-> p,
                            acc |-> 0, trail |-> <<>>]]
         /\ gameState' = [gameState EXCEPT !.mode = "FLYING"]
         /\ LET vec == getLaunchVector(physics.bodies, mouse, upgrades, gameData).vec
            IN  launched' = [pos |-> LaunchPoint(physics.bodies, vec, gameData), vel |-> vec]
         /\ UNCHANGED <<document, explosions, uncaught, mouse, canvas, draft, gameData, upgrades, levelsConfig, dom,
                        pc, steps, endEvents>>

\* launch() of src/unnamed/part_000, which reads earth.pos.x without looking
\* whether a launch body was found: a TypeError before anything is assigned.
launchUnguarded(p) ==
    IF Find(physics.bodies, "target_start") = 0
    THEN /\ uncaught' = "TypeError"
         /\ UNCHANGED <<document, explosions, mouse, canvas, launched, draft, gameData, gameState, physics, upgrades,
                        levelsConfig, dom, pc, steps, endEvents>>
    ELSE launchGuarded(p)

launch(p) == IF draft = "game" THEN launchGuarded(p) ELSE launchUnguarded(p)

(***************************************************************************)
(* InputManager                                                            *)
(***************************************************************************)
\* mousemove / touchmove: _updateMouse(e).  The handlers below are taken at
\* the pointer position of the last such event.  InputManager's listeners
\* are registered before part000's init() awaits UIManager.init(), so they
\* also run during that wait.
mousemove(m) ==
    /\ pc \in {"event", "await"}
    /\ mouse' = m
    /\ UNCHANGED <<document, explosions, uncaught, canvas, launched, draft, gameData, gameState, physics, upgrades, levelsConfig,
                   dom, pc, steps, endEvents>>

inputStart ==
    /\ pc \in {"event", "await"}
    /\ gameState' = IF gameState.mode = "FLYING"
                    THEN [gameState EXCEPT !.isThrusting = TRUE]
                    ELSE gameState
    /\ UNCHANGED <<document, explosions, uncaught, mouse, canvas, launched, draft, gameData, physics, upgrades, levelsConfig, dom, pc, steps, endEvents>>

inputEnd(p) ==
    /\ pc \in {"event", "await"}
    /\ IF gameState.mode = "FLYING"
       THEN /\ gameState' = [gameState EXCEPT !.isThrusting = FALSE]
            /\ UNCHANGED <<document, explosions, uncaught, mouse, canvas, launched, draft, gameData, physics, upgrades, levelsConfig, dom, pc, steps,
                           endEvents>>
       ELSE IF gameState.mode = "IDLE"
            THEN launch(p)
            ELSE UNCHANGED vars

(***************************************************************************)
(* UIManager.togglePause, resetGame, changeLevel, resize                   *)
(***************************************************************************)
ToggledInAnyMode(gs) == [gs EXCEPT !.isPaused = ~@]

Toggled(gs) == IF gs.mode = "FLYING" THEN [gs EXCEPT !.isPaused = ~@] ELSE gs

togglePause ==
    /\ pc = "event"
    /\ gameState' = Toggled(gameState)
    /\ UNCHANGED <<document, explosions, uncaught, mouse, canvas, launched, draft, gameData, physics, upgrades, levelsConfig, dom, pc, steps, endEvents>>

\* A visibilitychange handler that follows document.hidden in every mode.
VisibilityInAnyMode(gs, hidden) == [gs EXCEPT !.isPaused = hidden]

\* The visibilitychange handler of src/unnamed/part_000 on the game state.
Visibility(gs, hidden) ==
    IF hidden
    THEN (IF gs.mode = "FLYING" THEN [gs EXCEPT !.isPaused = TRUE] ELSE gs)
    ELSE (IF gs.mode = "FLYING" /\ gs.isPaused THEN [gs EXCEPT !.isPaused = FALSE] ELSE gs)

\* document's visibilitychange event; src/game.js registers no handler for it.
visibilitychange(hidden) ==
    /\ pc = "event"
    /\ draft = "part000"
    /\ hidden # document.hidden
    /\ document' = [hidden |-> hidden, pausedAtHide |-> hidden /\ gameState.isPaused]
    /\ gameState' = Visibility(gameState, hidden)
    /\ UNCHANGED <<explosions, uncaught, mouse, canvas, launched, draft, gameData, physics,
                   upgrades, levelsConfig, dom, pc, steps, endEvents>>

\* The next level without the wrap-around after the last one.
NextLevelNoWrap(level, action) ==
    IF action = "reset" THEN 1
    ELSE IF action = "next" THEN level + 1
    ELSE level

NextLevelCapped(level, action) ==
    IF action = "reset" THEN 1
    ELSE IF action = "next" THEN (IF level + 1 > 4 THEN level ELSE level + 1)
    ELSE level

NextLevel(level, action) ==
    IF action = "reset" THEN 1
    ELSE IF action = "next" THEN (IF level + 1 > 4 THEN 1 ELSE level + 1)
    ELSE level

\* resetGame that leaves closestDist, the accumulator and the paused flag
\* as they are.
resetGameKeepingFlight(gs, gd, action, rnd) ==
    LET level == NextLevel(gs.level, action)
    IN  /\ gameState' = [gs EXCEPT !.level = level, !.mode = "IDLE"]
        /\ physics' = [bodies |-> createSolarSystem(gd, level, rnd), rocket |-> null,
                       ghostTrail |-> IF action \in {"reset", "next"}
                                      THEN <<>> ELSE physics.ghostTrail,
                       ghostKept |-> IF action \in {"reset", "next"} \/ physics.ghostTrail = <<>>
                                     THEN 0 ELSE physics.ghostKept + 1]
        /\ gameData' = gd
        /\ dom' = [message |-> "none", nextLevelBtn |-> "none"]
        /\ endEvents' = <<>>
        /\ explosions' = <<>>
        /\ launched' = null
        /\ UNCHANGED <<document, uncaught, mouse, canvas, draft, upgrades, levelsConfig, pc, steps>>

\* resetGame that leaves physics.rocket as it is.
resetGameKeepingRocket(gs, gd, action, rnd) ==
    LET level == NextLevel(gs.level, action)
    IN  /\ gameState' = [gs EXCEPT !.level = level, !.mode = "IDLE", !.isPaused = FALSE,
                                   !.closestDist = Infinity]
        /\ physics' = [physics EXCEPT !.bodies = createSolarSystem(gd, level, rnd),
                                      !.ghostTrail = IF action \in {"reset", "next"}
                                                     THEN <<>> ELSE @,
                                      !.ghostKept = IF action \in {"reset", "next"}
                                                       \/ physics.ghostTrail = <<>>
                                                    THEN 0 ELSE @ + 1]
        /\ gameData' = [gd EXCEPT !.accumulator = 0, !.pausedTime = 0]
        /\ dom' = [message |-> "none", nextLevelBtn |-> "none"]
        /\ endEvents' = <<>>
        /\ explosions' = <<>>
        /\ launched' = null
        /\ UNCHANGED <<document, uncaught, mouse, canvas, draft, upgrades, levelsConfig, pc, steps>>

\* resetGame that pays the distance score of the flight it abandons.
resetGameScoring(gs, gd, action, rnd) ==
    LET level == NextLevel(gs.level, action)
    IN  /\ gameState' = [gs EXCEPT !.level = level, !.mode = "IDLE", !.isPaused = FALSE,
                                   !.closestDist = Infinity,
                                   !.coins = @ + distScore(gs.closestDist)]
        /\ physics' = [bodies |-> createSolarSystem(gd, level, rnd), rocket |-> null,
                       ghostTrail |-> IF action \in {"reset", "next"}
                                      THEN <<>> ELSE physics.ghostTrail,
                       ghostKept |-> IF action \in {"reset", "next"} \/ physics.ghostTrail = <<>>
                                     THEN 0 ELSE physics.ghostKept + 1]
        /\ gameData' = [gd EXCEPT !.accumulator = 0, !.pausedTime = 0]
        /\ dom' = [message |-> "none", nextLevelBtn |-> "none"]
        /\ endEvents' = <<>>
        /\ explosions' = <<>>
        /\ launched' = null
        /\ UNCHANGED <<document, uncaught, mouse, canvas, draft, upgrades, levelsConfig, pc, steps>>

\* resetGame(action) applied to game state gs and game data gd.
resetGame(gs, gd, action, rnd) ==
    LET level == NextLevel(gs.level, action)
    IN  /\ gameState' = [gs EXCEPT !.level = level, !.mode = "IDLE", !.isPaused = FALSE,
                                   !.closestDist = Infinity]
        /\ physics' = [bodies |-> createSolarSystem(gd, level, rnd), rocket |-> null,
                       ghostTrail |-> IF action \in {"reset", "next"}
                                      THEN <<>> ELSE physics.ghostTrail,
                       ghostKept |-> IF action \in {"reset", "next"} \/ physics.ghostTrail = <<>>
                                     THEN 0 ELSE physics.ghostKept + 1]
        /\ gameData' = [gd EXCEPT !.accumulator = 0, !.pausedTime = 0]
        /\ dom' = [message |-> "none", nextLevelBtn |-> "none"]
        /\ endEvents' = <<>>
        /\ explosions' = <<>>
        /\ launched' = null
        /\ UNCHANGED <<document, uncaught, mouse, canvas, draft, upgrades, levelsConfig, pc, steps>>

resetLevelBtn(rnd) ==
    /\ pc = "event"
    /\ resetGame(gameState, gameData, "stay", rnd)

retryBtn(rnd) ==
    /\ pc = "event"
    /\ dom.message = "block"
    /\ resetGame(gameState, gameData, "stay", rnd)

nextLevelBtn(rnd) ==
    /\ pc = "event"
    /\ dom.message = "block"
    /\ dom.nextLevelBtn = "inline-block"
    /\ resetGame(gameState, gameData, "next", rnd)

pauseRestartBtn(rnd) ==
    /\ pc = "event"
    /\ gameState.isPaused
    /\ resetGame(Toggled(gameState), gameData, "stay", rnd)

changeLevel(val, rnd) ==
    /\ pc = "event"
    /\ resetGame([gameState EXCEPT !.level = val], gameData, "stay", rnd)

resize(w, h, rnd) ==
    /\ pc = "event"
    /\ LET gd == [gameData EXCEPT !.width = w, !.height = h, !.scaleFactor = ScaleOf(w, h)]
       IN  IF gameState.mode = "IDLE"
           THEN resetGame(gameState, gd, "stay", rnd)
           ELSE /\ gameData' = gd
                /\ UNCHANGED <<document, explosions, uncaught, mouse, canvas, launched, draft, gameState, physics, upgrades, levelsConfig, dom, pc,
                               steps, endEvents>>

\* init() of src/unnamed/part_000 after `await UIManager.init()`: resize(),
\* which measures the window, centres the pointer and, in IDLE, resets the
\* game, then createSolarSystem() and the first call of loop().
initResumed(w, h, rnd) ==
    /\ pc = "await"
    /\ LET gd == [gameData EXCEPT !.width = w, !.height = h, !.scaleFactor = ScaleOf(w, h)]
       IN  /\ gameData' = [gd EXCEPT !.accumulator = 0, !.pausedTime = 0]
           /\ mouse' = Centre(gd)
           /\ physics' = [physics EXCEPT !.bodies = createSolarSystem(gd, gameState.level, rnd),
                                         !.rocket = null]
    /\ gameState' = [gameState EXCEPT !.mode = "IDLE", !.isPaused = FALSE,
                                      !.closestDist = Infinity]
    /\ pc' = "event"
    /\ UNCHANGED <<document, explosions, uncaught, canvas, launched, draft, upgrades, levelsConfig, dom, steps,
                   endEvents>>

(***************************************************************************)
(* The state when init() has run: upgrades at level 1, the window          *)
(* measured, the world built, mode IDLE, and loop() about to be called.    *)
(***************************************************************************)
Init ==
    /\ draft \in Drafts
    /\ levelsConfig \in (IF draft = "game" THEN {"loaded"} ELSE {"loaded", "null"})
    /\ \E win \in WindowSizes :
          gameData = [width |-> win[1], height |-> win[2],
                      scaleFactor |-> ScaleOf(win[1], win[2]), accumulator |-> 0,
                      pausedTime |-> 0, frameCount |-> 0]
    /\ gameState = [mode |-> "IDLE", level |-> 1, coins |-> 0, closestDist |-> Infinity,
                    isThrusting |-> FALSE, isPaused |-> FALSE]
    /\ \E rnd \in RandomDraws :
          physics = [bodies |-> createSolarSystem(gameData, 1, rnd), rocket |-> null,
                     ghostTrail |-> <<>>, ghostKept |-> 0]
    /\ upgrades = InitUpgrades
    /\ dom = [message |-> "none", nextLevelBtn |-> "none"]
    /\ pc = "event"
    /\ steps = 0
    /\ endEvents = <<>>
    /\ mouse = Centre(gameData)
    /\ canvas = null
    /\ launched = null
    /\ uncaught = "none"
    /\ explosions = <<>>
    /\ document = [hidden |-> FALSE, pausedAtHide |-> FALSE]

RocketAge == IF physics.rocket = null THEN 0 ELSE physics.rocket.age

\* The rocket clear of every body, inside the boundary, far from the destination.
FreePosition == [near |-> {}, far |-> FALSE, dMars |-> 200 * U]

AllPositions == Positions(physics.bodies, gameData)

\* The position a tick draws matters only while a rocket is there to be moved.
TickPositions(P) == IF physics.rocket = null THEN {FreePosition} ELSE P

(***************************************************************************)
(* Spec: every handler, with whole frames of steps, the rocket either      *)
(* clear of the bodies, on the destination, or beyond the boundary, and    *)
(* the store, the level selector and the window used between flights.      *)
(***************************************************************************)
CorePositions ==
    {p \in AllPositions :
        /\ p.near \subseteq {Find(physics.bodies, "target_end")}
        /\ p.dMars # 41 * U}

\* A click on a button that ends in resetGame.
Resets ==
    \/ \E rnd \in RandomDraws : resetLevelBtn(rnd)
    \/ \E rnd \in RandomDraws : retryBtn(rnd)
    \/ \E rnd \in RandomDraws : nextLevelBtn(rnd)
    \/ \E rnd \in RandomDraws : pauseRestartBtn(rnd)
    \/ \E val \in 1 .. 4, rnd \in RandomDraws :
          /\ gameState.mode = "IDLE"
          /\ changeLevel(val, rnd)
    \/ \E win \in WindowSizes, rnd \in RandomDraws :
          /\ gameState.mode = "IDLE"
          /\ resize(win[1], win[2], rnd)

Next ==
    \/ /\ gameData.accumulator < step
       /\ LoopStart(maxSteps * step)
    \/ \E p \in TickPositions(CorePositions) :
          /\ RocketAge < MaxAge
          /\ Tick(p)
    \/ LoopEnd
    \/ inputStart
    \/ /\ gameState.coins < MaxCoins
       /\ inputEnd(FreePosition)
    \/ togglePause
    \/ /\ physics.ghostKept < MaxKept
       /\ Resets
    \/ \E type \in Tracks :
          /\ gameState.mode = "ENDED"
          /\ buy(type)

Spec == Init /\ [][Next]_vars

(***************************************************************************)
(* SpecLoop: the loop driver and the pause flag, with the fine-grained     *)
(* frame times, during free flight in a window of one size.                *)
(***************************************************************************)
InitLoop ==
    /\ Init
    /\ levelsConfig = "loaded"
    /\ gameData.width = 1000

NextLoop ==
    \/ \E d \in Deltas :
          /\ gameData.accumulator < MaxAcc
          /\ LoopStart(d)
    \/ \E p \in TickPositions({FreePosition}) :
          /\ RocketAge < MaxAge
          /\ Tick(p)
    \/ LoopEnd
    \/ inputEnd(FreePosition)
    \/ togglePause
    \/ \E rnd \in RandomDraws : resetLevelBtn(rnd)

SpecLoop == InitLoop /\ [][NextLoop]_vars

(***************************************************************************)
(* SpecFlight: one flight through every position class the geometry        *)
(* allows, in both window sizes, one full frame of steps at a time, up to  *)
(* the end of the frame the flight ends in.                                *)
(***************************************************************************)
FrameOfSteps == maxSteps * step

ClearLaunches == {p \in LaunchPositions(physics.bodies, gameData) : p.near = {}}

NextFlight ==
    \/ /\ gameData.accumulator < step
       /\ gameState.mode # "ENDED"
       /\ LoopStart(FrameOfSteps)
    \/ \E p \in TickPositions(AllPositions) :
          /\ RocketAge < MaxAge
          /\ Tick(p)
    \/ LoopEnd
    \/ \E p \in ClearLaunches :
          /\ gameState.coins < MaxCoins
          /\ inputEnd(p)

SpecFlight == Init /\ [][NextFlight]_vars

(***************************************************************************)
(* SpecGrace: a flight that stays by the launch body through the grace     *)
(* period and past it.                                                     *)
(***************************************************************************)
GracePositions ==
    {p \in AllPositions : p.near \subseteq {Find(physics.bodies, "target_start")}}

NextGrace ==
    \/ /\ gameData.accumulator < step
       /\ LoopStart(FrameOfSteps)
    \/ \E p \in TickPositions(GracePositions) :
          /\ RocketAge < MaxGraceAge
          /\ Tick(p)
    \/ LoopEnd
    \/ inputEnd(FreePosition)

SpecGrace == InitLoop /\ [][NextGrace]_vars

(***************************************************************************)
(* SpecShop: the store, entered with a coin total earned before.           *)
(***************************************************************************)
InitShop ==
    /\ draft \in Drafts
    /\ levelsConfig = "loaded"
    /\ gameData = [width |-> 1000, height |-> 800, scaleFactor |-> ScaleOf(1000, 800),
                   accumulator |-> 0, pausedTime |-> 0, frameCount |-> 0]
    /\ \E c \in ShopCoins :
          gameState = [mode |-> "IDLE", level |-> 1, coins |-> c, closestDist |-> Infinity,
                       isThrusting |-> FALSE, isPaused |-> FALSE]
    /\ \E rnd \in RandomDraws :
          physics = [bodies |-> createSolarSystem(gameData, 1, rnd), rocket |-> null,
                     ghostTrail |-> <<>>, ghostKept |-> 0]
    /\ upgrades = InitUpgrades
    /\ dom = [message |-> "none", nextLevelBtn |-> "none"]
    /\ pc = "event"
    /\ steps = 0
    /\ endEvents = <<>>
    /\ mouse = Centre(gameData)
    /\ canvas = null
    /\ launched = null
    /\ uncaught = "none"
    /\ explosions = <<>>
    /\ document = [hidden |-> FALSE, pausedAtHide |-> FALSE]

NextShop == \E type \in Tracks : buy(type)

SpecShop == InitShop /\ [][NextShop]_vars

(***************************************************************************)
(* SpecSession: flights between visits to the store for the fuel tank,     *)
(* one step a frame, the rocket clear of the bodies or on the destination. *)
(***************************************************************************)
NextSession ==
    \/ /\ gameData.accumulator < step
       /\ gameState.mode # "ENDED"
       /\ LoopStart(step)
    \/ \E p \in TickPositions(CorePositions) :
          /\ RocketAge < MaxAge
          /\ Tick(p)
    \/ LoopEnd
    \/ /\ gameState.mode = "IDLE"
             => physics.ghostKept < MaxKept /\ gameState.coins < MaxCoins
       /\ inputEnd(FreePosition)
    \/ \E rnd \in RandomDraws : retryBtn(rnd)
    \/ /\ gameState.mode # "FLYING"
       /\ buy("fuel")

InitSession ==
    /\ InitShop
    /\ gameState.coins < MaxCoins

SpecSession == InitSession /\ [][NextSession]_vars

(***************************************************************************)
(* The loop driver and the pause flag                                      *)
(***************************************************************************)
\* A step that belongs to a loop() frame: its first part, or a part inside it.
LoopFrameStep == pc = "loop" \/ \E d \in Deltas : LoopStart(d)

\* C1: while isPaused is set, the steps of any loop() frame leave every body
\* (position, orbit angle), the rocket (position, velocity, fuel, age) and
\* closestDist as they were.
C1_PauseFreezes ==
    [][gameState.isPaused /\ LoopFrameStep
          => /\ physics' = physics
             /\ gameState'.closestDist = gameState.closestDist]_vars

\* A frame has been processed while a flight in progress was paused.
C1_Witness ==
    /\ gameState.isPaused
    /\ gameData.pausedTime > 0
    /\ RocketAge > 0

\* C2: time that elapses while paused is never simulated: what the paused
\* frames added to the accumulator is still in it, so the steps run after
\* resume consume only unpaused time.
C2_PausedTimeNotSimulated == gameData.accumulator >= gameData.pausedTime

\* C3: time beyond the 5-step cap is discarded, so the accumulator never
\* holds more than one frame's clamped delta plus a sub-step remainder.
C3_AccumulatorBounded == gameData.accumulator < MAX_DELTA + step

\* C4: a frame adds at most MAX_DELTA, runs at most maxSteps steps, runs a
\* step only from an accumulator of at least one step and subtracts exactly
\* one step for it; the accumulator is never negative and what is left when
\* the while loop ends is carried over unchanged.
C4_FrameAccounting ==
    [][/\ gameData'.accumulator <= gameData.accumulator + MAX_DELTA
       /\ steps' <= maxSteps
       /\ (pc = "loop" /\ pc' = "loop"
             => /\ steps' = steps + 1
                /\ gameData.accumulator >= step
                /\ gameData'.accumulator = gameData.accumulator - step)
       /\ gameData'.accumulator >= 0
       /\ (pc = "loop" /\ pc' = "event"
             => gameData'.accumulator = gameData.accumulator)]_vars

\* A frame has run into the step cap with at least one more step of time left.
C4_Witness ==
    /\ pc = "loop"
    /\ steps = maxSteps
    /\ gameData.accumulator >= step
    /\ gameData.pausedTime = 0

(***************************************************************************)
(* Collisions and rewards                                                  *)
(***************************************************************************)
\* A physics step taken with a rocket in flight.
FlightTick == pc = "loop" /\ pc' = "loop" /\ physics.rocket # null

\* The step has called endGame.
Ended == Len(endEvents') = Len(endEvents) + 1

LastEvent == endEvents'[Len(endEvents')]

Contact(type) == Find(physics.bodies, type) \in physics.rocket.pos.near

\* C5: a tick that finds the rocket within collision distance of target_end
\* ends the run in that tick as a success and adds exactly LANDING_REWARD,
\* whichever other bodies hold the rocket too.
C5_DestinationAlwaysLands ==
    [][FlightTick /\ Contact("target_end")
          => /\ gameState'.mode = "ENDED"
             /\ Ended /\ LastEvent.success
             /\ gameState'.coins = gameState.coins + 100]_vars

\* C6: a tick whose collision is with target_start leaves the run going
\* while the rocket's age is at most 100 (only the boundary can end it in
\* that tick) and ends it as a crash once the age is 101 or more.
C6_GracePeriod ==
    [][FlightTick /\ FirstHit(World) = Find(physics.bodies, "target_start")
          => IF physics.rocket.age <= 100
             THEN \/ gameState'.mode = "FLYING" /\ physics'.rocket # null /\ ~Ended
                  \/ Ended /\ LastEvent.reason = "lost_space"
             ELSE /\ gameState'.mode = "ENDED"
                  /\ Ended /\ ~LastEvent.success /\ LastEvent.reason = "crashed"]_vars

\* The launch body has ended, at age 101, a flight it had let be until then.
C6_Witness ==
    /\ gameState.mode = "ENDED"
    /\ Len(endEvents) = 1
    /\ endEvents[1].reason = "crashed"
    /\ endEvents[1].age = 101

\* C7: endGame runs at most once per launch; it leaves mode ENDED and no
\* rocket and adds the reward once; a tick that does not call it awards
\* nothing, and no tick calls it once the mode is ENDED.
C7_EndGameOnce ==
    [][/\ Len(endEvents') <= 1
       /\ (Ended => /\ gameState.mode = "FLYING"
                    /\ gameState'.mode = "ENDED"
                    /\ physics'.rocket = null
                    /\ gameState'.coins = gameState.coins + LastEvent.earned)
       /\ (pc = "loop" /\ ~Ended => gameState'.coins = gameState.coins)
       /\ (pc = "loop" /\ gameState.mode = "ENDED" => endEvents' = endEvents)]_vars

\* A flight has ended with a reward and the loop has run a step after that.
C7_Witness ==
    /\ gameState.mode = "ENDED"
    /\ Len(endEvents) = 1
    /\ endEvents[1].earned > 0
    /\ pc = "loop"
    /\ steps >= 2

\* C8: a failure with reason 'crashed' leaves coins as they were, whatever
\* closestDist is.
C8_CrashEarnsNothing ==
    [][Ended /\ ~LastEvent.success /\ LastEvent.reason = "crashed"
          => gameState'.coins = gameState.coins]_vars

\* A crash after an approach close enough to have a distance score.
C8_Witness ==
    /\ Len(endEvents) = 1
    /\ endEvents[1].reason = "crashed"
    /\ gameState.closestDist # Infinity
    /\ gameState.closestDist < 2 * U * MAX_DISTANCE_SCORE

\* C9: a failure with any other reason adds max(0, 50 - floor(closestDist/2))
\* for the closestDist the flight ends with, which is 0 for +infinity.
C9_DistanceScore ==
    [][Ended /\ ~LastEvent.success /\ LastEvent.reason # "crashed"
          => gameState'.coins = gameState.coins +
                (IF gameState'.closestDist = Infinity THEN 0
                 ELSE Max(0, 50 - (gameState'.closestDist \div (2 * U))))]_vars

\* A flight lost in space whose closest approach was too far for any score.
C9_Witness ==
    /\ Len(endEvents) = 1
    /\ endEvents[1].reason = "lost_space"
    /\ endEvents[1].earned = 0
    /\ gameState.closestDist = 200 * U

(***************************************************************************)
(* The store                                                               *)
(***************************************************************************)
\* C10: buy(track) succeeds exactly when the track's level is below its max
\* and coins cover its cost; it then takes the old cost from coins, adds one
\* to the level and sets the cost to floor(old cost * 1.5), leaving the two
\* other tracks alone; otherwise nothing changes.
C10_Buy ==
    [][\A type \in Tracks :
          buy(type)
             => IF upgrades[type].level < upgrades[type].max
                   /\ gameState.coins >= upgrades[type].cost
                THEN /\ gameState'.coins = gameState.coins - upgrades[type].cost
                     /\ upgrades'[type].level = upgrades[type].level + 1
                     /\ upgrades'[type].cost = (upgrades[type].cost * 3) \div 2
                     /\ upgrades'[type].max = upgrades[type].max
                     /\ \A other \in Tracks \ {type} : upgrades'[other] = upgrades[other]
                ELSE UNCHANGED <<gameState, upgrades>>]_vars

\* One track bought up to its max, another bought once, coins left over.
C10_Witness ==
    /\ upgrades["fuel"].level = upgrades["fuel"].max
    /\ upgrades["fuel"].cost = 252
    /\ upgrades["thrust"].level = 2
    /\ upgrades["launch"].level = 1
    /\ gameState.coins = 2000 - 405 - 80

\* C11: a purchase attempted with coins below the cost or with the track at
\* its max can always be made (nothing is raised) and changes nothing: coins
\* and every track's level and cost stay as they were, and so does all else.
C11_RejectedPurchase ==
    [][\A type \in Tracks :
          /\ ENABLED buy(type)
          /\ (/\ buy(type)
              /\ \/ gameState.coins < upgrades[type].cost
                 \/ upgrades[type].level >= upgrades[type].max)
                => UNCHANGED vars]_vars

\* Every purchase is now one to reject: one track is at its max and the
\* coins left do not cover the cost of any other.
C11_Witness ==
    /\ upgrades["fuel"].level = upgrades["fuel"].max
    /\ upgrades["thrust"].level < upgrades["thrust"].max
    /\ upgrades["launch"].level < upgrades["launch"].max
    /\ gameState.coins >= 0
    /\ gameState.coins < upgrades["thrust"].cost
    /\ gameState.coins < upgrades["launch"].cost

(***************************************************************************)
(* SpecLevels: attempts on every level in a window of one size, each       *)
(* followed by the retry, next-level or reset button or the level          *)
(* selector; no thrust, no pause, no purchase.                             *)
(***************************************************************************)
NextLevels ==
    \/ /\ gameData.accumulator < step
       /\ gameState.mode # "ENDED"
       /\ LoopStart(step + 1)
    \/ \E p \in TickPositions(CorePositions) :
          /\ RocketAge < MaxAge
          /\ Tick(p)
    \/ LoopEnd
    \/ /\ gameState.coins < MaxCoins
       /\ inputEnd(FreePosition)
    \/ \E rnd \in RandomDraws :
          /\ physics.ghostKept < MaxKept
          /\ \/ retryBtn(rnd)
             \/ nextLevelBtn(rnd)
             \/ resetLevelBtn(rnd)
             \/ \E val \in 1 .. 4 :
                   /\ gameState.mode = "IDLE"
                   /\ changeLevel(val, rnd)

SpecLevels == InitLoop /\ [][NextLevels]_vars

(***************************************************************************)
(* SpecApproach: attempts on one level, one step a frame, the rocket clear *)
(* of the bodies at either distance from the destination, on the           *)
(* destination, or beyond the boundary, each followed by the retry button. *)
(***************************************************************************)
ApproachPositions ==
    {p \in AllPositions : p.near \subseteq {Find(physics.bodies, "target_end")}}

NextApproach ==
    \/ /\ gameData.accumulator < step
       /\ gameState.mode # "ENDED"
       /\ LoopStart(step)
    \/ \E p \in TickPositions(ApproachPositions) :
          /\ RocketAge < MaxAge
          /\ Tick(p)
    \/ LoopEnd
    \/ /\ gameState.coins < MaxCoins
       /\ inputEnd(FreePosition)
    \/ \E rnd \in RandomDraws :
          /\ physics.ghostKept < MaxKept
          /\ retryBtn(rnd)

SpecApproach == InitLoop /\ [][NextApproach]_vars

(***************************************************************************)
(* SpecBurn: one flight clear of every body, long enough to run the tank   *)
(* dry, full frames of steps; thrust engaged before the first tick or not  *)
(* at all, and let go before the first tick or once the tank is empty.     *)
(***************************************************************************)
NextBurn ==
    \/ /\ gameData.accumulator < step
       /\ gameState.mode = "FLYING"
       /\ LoopStart(FrameOfSteps)
    \/ /\ RocketAge < MaxBurnAge
       /\ Tick(FreePosition)
    \/ LoopEnd
    \/ /\ RocketAge = 0
       /\ inputStart
    \/ /\ physics.rocket # null => physics.rocket.age = 0 \/ physics.rocket.fuel = 0
       /\ inputEnd(FreePosition)

SpecBurn == InitLoop /\ [][NextBurn]_vars

(***************************************************************************)
(* SpecSystem: every way the solar system is rebuilt, from every initial   *)
(* state: frames run while a flight is under way, one step a frame, and    *)
(* the pause flag, every reset button, the level selector and the window   *)
(* are used in between.                                                    *)
(***************************************************************************)
NextSystem ==
    \/ /\ gameData.accumulator < step
       /\ gameState.mode = "FLYING"
       /\ LoopStart(step + 1)
    \/ \E p \in TickPositions(CorePositions) :
          /\ RocketAge < MaxAge
          /\ Tick(p)
    \/ LoopEnd
    \/ /\ gameState.coins < MaxCoins
       /\ inputEnd(FreePosition)
    \/ togglePause
    \/ /\ physics.ghostKept < MaxKept
       /\ Resets

SpecSystem == Init /\ [][NextSystem]_vars

(***************************************************************************)
(* SpecAim: aiming and launching.  The pointer is moved over a few points  *)
(* around the launch body, frames run in mode IDLE and draw the            *)
(* prediction, the launch upgrade is bought, the rocket is launched and    *)
(* the level is reset.                                                     *)
(***************************************************************************)
AimOffsetsPx == {<<0, 0>>, <<300, 0>>, <<0, -150>>, <<-90, 120>>}

\* Pointer positions: the launch body's place at angle 0 plus an offset.
MousePoints(gd) ==
    {VAdd(VAdd(Centre(gd), <<(Min(gd.width, gd.height) * 22 * U) \div 100, 0>>),
          <<o[1] * U, o[2] * U>>) : o \in AimOffsetsPx}

NextAim ==
    \/ \E m \in MousePoints(gameData) :
          /\ gameState.mode = "IDLE"
          /\ mousemove(m)
    \/ /\ gameData.accumulator < step
       /\ gameState.mode = "IDLE"
       /\ LoopStart(step)
    \/ Tick(FreePosition)
    \/ LoopEnd
    \/ inputEnd(FreePosition)
    \/ /\ upgrades["launch"].level < MaxLaunchLevel
       /\ gameState.mode = "IDLE"
       /\ buy("launch")
    \/ \E rnd \in RandomDraws : resetLevelBtn(rnd)

InitAim ==
    /\ InitShop
    /\ gameState.coins >= 405

SpecAim == InitAim /\ [][NextAim]_vars

(***************************************************************************)
(* SpecEconomy: purchases on every track at any moment, before, during and *)
(* after a flight that ends on the destination, beyond the boundary or not *)
(* at all, one step a frame.                                               *)
(***************************************************************************)
\* The levels bought so far, over all tracks.
Bought == upgrades["fuel"].level + upgrades["thrust"].level + upgrades["launch"].level - 3

NextEconomy ==
    \/ /\ gameData.accumulator < step
       /\ gameState.mode = "FLYING"
       /\ LoopStart(step)
    \/ \E p \in TickPositions(CorePositions) :
          /\ RocketAge < MaxAge
          /\ Tick(p)
    \/ LoopEnd
    \/ /\ gameState.mode = "IDLE" => gameState.coins < MaxCoins
       /\ inputEnd(FreePosition)
    \/ \E type \in Tracks :
          /\ Bought < MaxBought
          /\ buy(type)

SpecEconomy == InitShop /\ [][NextEconomy]_vars

(***************************************************************************)
(* SpecInput: one attempt under every pointer and pause input, one step a  *)
(* frame.                                                                  *)
(***************************************************************************)
NextInput ==
    \/ /\ gameData.accumulator < step
       /\ LoopStart(step)
    \/ \E p \in TickPositions(CorePositions) :
          /\ RocketAge < MaxAge
          /\ Tick(p)
    \/ LoopEnd
    \/ inputStart
    \/ inputEnd(FreePosition)
    \/ togglePause

SpecInput == InitShop /\ [][NextInput]_vars

(***************************************************************************)
(* Launch and the gating of input by mode                                  *)
(***************************************************************************)
\* C12: a launch from IDLE moves the mode to FLYING and creates a fresh
\* rocket: age 0, empty trail, zero acceleration, fuel equal to maxFuel of
\* the fuel level at launch time (100 + 30 per level above 1, in halves),
\* and nothing of an earlier flight in it.
C12_FreshRocket ==
    [][gameState.mode = "IDLE" /\ (\E p \in AllPositions : inputEnd(p))
          => /\ gameState'.mode = "FLYING"
             /\ \E p \in AllPositions :
                   physics'.rocket =
                      [type |-> "rocket", age |-> 0, trail |-> <<>>, acc |-> 0, pos |-> p,
                       fuel |-> 2 * (100 + 30 * (upgrades["fuel"].level - 1))]]_vars

\* A rocket just launched with an upgraded tank after an earlier flight that
\* left its trail behind.
C12_Witness ==
    /\ gameState.mode = "FLYING"
    /\ physics.rocket # null
    /\ physics.rocket.age = 0
    /\ physics.rocket.fuel = 2 * 160
    /\ physics.ghostTrail # <<>>

\* C13: a handler step creates a rocket only in mode IDLE and with no rocket
\* there, sets or clears the thrust flag only in mode FLYING, and sets the
\* paused flag only in mode FLYING.
C13_InputGatedByMode ==
    [][pc = "event" /\ pc' = "event"
          => /\ (physics'.rocket # null /\ physics'.rocket # physics.rocket
                    => gameState.mode = "IDLE" /\ physics.rocket = null)
             /\ (gameState'.isThrusting # gameState.isThrusting
                    => gameState.mode = "FLYING")
             /\ (gameState'.isPaused /\ ~gameState.isPaused
                    => gameState.mode = "FLYING")
             /\ (gameState.isPaused /\ ~gameState'.isPaused /\ gameState'.mode = gameState.mode
                    => gameState.mode = "FLYING")]_vars

\* A flight under way with thrust engaged and the pause flag set.
C13_Witness ==
    /\ gameState.mode = "FLYING"
    /\ gameState.isThrusting
    /\ gameState.isPaused
    /\ RocketAge > 0

(***************************************************************************)
(* Retry, next level, the ghost trail and the closest approach             *)
(***************************************************************************)
\* C14: from ENDED, the retry button gives IDLE with the level unchanged and
\* no rocket; the next-level button gives IDLE with the level raised by one,
\* 1 after level 4, and an empty ghost trail; both leave closestDist at
\* Infinity and the accumulator at 0.
C14_RetryAndNext ==
    [][gameState.mode = "ENDED"
          => /\ (\E rnd \in RandomDraws : retryBtn(rnd))
                   => /\ gameState'.mode = "IDLE"
                      /\ gameState'.level = gameState.level
                      /\ physics'.rocket = null
                      /\ gameState'.closestDist = Infinity
                      /\ gameData'.accumulator = 0
             /\ (\E rnd \in RandomDraws : nextLevelBtn(rnd))
                   => /\ gameState'.mode = "IDLE"
                      /\ gameState'.level = IF gameState.level = 4 THEN 1
                                            ELSE gameState.level + 1
                      /\ physics'.ghostTrail = <<>>
                      /\ gameState'.closestDist = Infinity
                      /\ gameData'.accumulator = 0]_vars

\* Level 1 again with the reward of a landing in hand and no ghost trail.
C14_Witness ==
    /\ gameState.mode = "IDLE"
    /\ gameState.level = 1
    /\ gameState.coins >= LANDING_REWARD
    /\ physics.ghostTrail = <<>>
    /\ physics.rocket = null
    /\ gameData.accumulator = 0

\* C15: the ghost trail outlives the flight that produced it by one attempt
\* only: once the attempt after that flight is over, by its end or by a
\* reset or level change, the ghost trail is no longer that flight's trail.
\* ghostKept counts the attempts begun since the ghost trail was produced
\* with the trail left in place.
C15_GhostOneAttempt == physics.ghostTrail # <<>> => physics.ghostKept <= 1

\* C16: closestDist is Infinity when the rocket is launched, and from one
\* tick of a flight to the next it is either unchanged or replaced by a
\* strictly smaller distance of the rocket to the destination.
C16_ClosestDist ==
    [][/\ (gameState.mode = "IDLE" /\ gameState'.mode = "FLYING"
              => gameState.closestDist = Infinity /\ gameState'.closestDist = Infinity)
       /\ (gameState.mode = "FLYING" /\ gameState'.mode # "IDLE"
              /\ gameState'.closestDist # gameState.closestDist
              => /\ pc = "loop"
                 /\ gameState'.closestDist = physics.rocket.pos.dMars
                 /\ gameState'.closestDist # Infinity
                 /\ \/ gameState.closestDist = Infinity
                    \/ gameState'.closestDist < gameState.closestDist)]_vars

\* A second flight that has come within 41 px of the destination and has
\* since moved away from it.
C16_Witness ==
    /\ gameState.mode = "FLYING"
    /\ physics.ghostTrail # <<>>
    /\ physics.rocket # null
    /\ gameState.closestDist = 41 * U
    /\ physics.rocket.pos.dMars = 200 * U
    /\ physics.rocket.age >= 3

(***************************************************************************)
(* Fuel                                                                    *)
(***************************************************************************)
\* C17: the fuel of a rocket never rises and is never negative; a tick takes
\* FUEL_BURN (0.5) from it, not going below 0, when thrust is engaged and
\* the fuel is above 0 as the tick starts, and leaves it alone otherwise.
C17_Fuel ==
    [][physics.rocket # null /\ physics'.rocket # null
          => /\ physics'.rocket.fuel >= 0
             /\ physics'.rocket.fuel <= physics.rocket.fuel
             /\ physics'.rocket.fuel =
                   IF steps' = steps + 1 /\ gameState.isThrusting /\ physics.rocket.fuel > 0
                   THEN Max(0, physics.rocket.fuel - FUEL_BURN)
                   ELSE physics.rocket.fuel]_vars

\* The tank run dry with thrust still engaged, a tick later.
C17_Witness ==
    /\ physics.rocket # null
    /\ physics.rocket.fuel = 0
    /\ gameState.isThrusting
    /\ physics.rocket.age > 200

(***************************************************************************)
(* Lost in space                                                           *)
(***************************************************************************)
\* C18: a tick whose collision processing leaves the rocket in place and
\* whose motion update puts it farther than 2 * max(width, height) from the
\* centre ends the game in that tick as a failure with reason 'lost_space';
\* the test is made on the position after the update, so a rocket moved to
\* a position inside the boundary flies on.
C18_LostInSpace ==
    [][\A p \in AllPositions :
          /\ gameState.mode = "FLYING"
          /\ physics.rocket # null
          /\ calculateGravity(World).ph.rocket # null
          /\ Tick(p)
          => IF p.far
             THEN /\ gameState'.mode = "ENDED"
                  /\ physics'.rocket = null
                  /\ Ended
                  /\ ~LastEvent.success
                  /\ LastEvent.reason = "lost_space"
             ELSE /\ gameState'.mode = "FLYING"
                  /\ physics'.rocket # null
                  /\ physics'.rocket.pos = p
                  /\ endEvents' = endEvents]_vars

\* A flight in the small window that went beyond the boundary on its third
\* tick or later.
C18_Witness ==
    /\ gameState.mode = "ENDED"
    /\ gameData.width = 320
    /\ Len(endEvents) = 1
    /\ endEvents[1].reason = "lost_space"
    /\ ~endEvents[1].success
    /\ endEvents[1].age >= 3

(***************************************************************************)
(* The solar system and what a reset keeps                                 *)
(***************************************************************************)
CountOf(bodies, type) == Cardinality({i \in DOMAIN bodies : bodies[i].type = type})

\* The asteroid count of the current level: the level's entry in the level
\* definitions, 3 where part000 has no definitions loaded.
AsteroidCount ==
    IF draft = "game" \/ levelsConfig = "loaded"
    THEN LEVELS_DATA.levels[gameState.level].asteroidCount
    ELSE 3

Census(bodies) ==
    /\ CountOf(bodies, "sun") = 1
    /\ CountOf(bodies, "target_start") = 1
    /\ CountOf(bodies, "moon") = 1
    /\ CountOf(bodies, "target_end") = 1
    /\ CountOf(bodies, "saturn") = 1
    /\ Cardinality({i \in DOMAIN bodies :
                       bodies[i].type = "obstacle" /\ bodies[i].parentBody # 0}) = 12
    /\ Cardinality({i \in DOMAIN bodies :
                       bodies[i].type = "obstacle" /\ bodies[i].parentBody = 0}) = AsteroidCount
    /\ Len(bodies) = 17 + AsteroidCount

\* No body has moved along its orbit since it was built.
Fresh(bodies) == \A i \in DOMAIN bodies : bodies[i].orbitAngle = 0

\* A step that runs resetGame.
ResetStep ==
    \E rnd \in RandomDraws :
       \/ resetLevelBtn(rnd)
       \/ retryBtn(rnd)
       \/ nextLevelBtn(rnd)
       \/ pauseRestartBtn(rnd)
       \/ \E val \in 1 .. 4 : changeLevel(val, rnd)
       \/ \E win \in WindowSizes : gameState.mode = "IDLE" /\ resize(win[1], win[2], rnd)

\* C19: the bodies are always one sun, one target_start, one moon, one
\* target_end, one saturn, 12 ring obstacles and the current level's
\* asteroidCount of asteroids, 17 + asteroidCount in all, and after every
\* build (the first, retry, next, level change, resize in IDLE) every one of
\* them is newly built.
C19_SolarSystem ==
    /\ Census(physics.bodies)
    /\ Fresh(physics.bodies)
    /\ [][/\ Census(physics.bodies)'
          /\ ResetStep => Fresh(physics.bodies)']_vars

\* Level 3 built after a flight on another level: 31 bodies, none moved.
C19_Witness ==
    /\ gameState.level = 3
    /\ gameState.mode = "IDLE"
    /\ Len(physics.bodies) = 17 + AsteroidCount
    /\ Fresh(physics.bodies)
    /\ physics.ghostTrail # <<>>

\* C20: resetGame leaves the coins and the level and cost of every upgrade
\* track as they are, replaces every body, removes the rocket, and resets
\* the paused flag, closestDist and the accumulator.
C20_ResetKeepsProgress ==
    [][ResetStep
          => /\ gameState'.coins = gameState.coins
             /\ upgrades' = upgrades
             /\ Fresh(physics.bodies)'
             /\ physics'.rocket = null
             /\ ~gameState'.isPaused
             /\ gameState'.closestDist = Infinity
             /\ gameData'.accumulator = 0]_vars

\* The second reset in a row after a flight that earned coins and left a
\* ghost trail: the coins are there, the rocket is gone, the bodies are new.
C20_Witness ==
    /\ gameState.mode = "IDLE"
    /\ gameState.coins > 0
    /\ physics.rocket = null
    /\ physics.ghostTrail # <<>>
    /\ physics.ghostKept = 2
    /\ Fresh(physics.bodies)

(***************************************************************************)
(* Aiming: the launch vector, the launch point and the prediction          *)
(***************************************************************************)
Abs(n) == IF n < 0 THEN -n ELSE n
Cross(a, b) == a[1] * b[2] - a[2] * b[1]
Dot(a, b) == a[1] * b[1] + a[2] * b[2]

\* a points along b, up to the rounding of each component of a.
Along(a, b) == Abs(Cross(a, b)) <= Abs(b[1]) + Abs(b[2]) /\ Dot(a, b) >= 0

Earth == physics.bodies[Find(physics.bodies, "target_start")]

Aim == VSub(mouse, EarthPos(Earth, gameData))

LaunchStep == gameState.mode = "IDLE" /\ gameState'.mode = "FLYING"

\* C21: the velocity launch() gives the rocket is the one the prediction
\* drawn for the same aim point, launch-body state and upgrades starts
\* from, and it is the launch body's velocity plus an impulse along the aim
\* whose size is the launch force for the aim's length.
C21_LaunchVelocity ==
    [][LaunchStep
          => LET impulse == VSub(launched'.vel, EarthVel(Earth))
                 cap == MAX_INPUT_DIST * gameData.scaleFactor
                 lo == (15 * gameData.scaleFactor * V) \div 10
                 hi == (5 + (upgrades["launch"].level - 1)) * gameData.scaleFactor * V
                 force == lo + ((hi - lo) * Min(Mag(Aim), cap)) \div cap
             IN  /\ Along(impulse, Aim)
                 /\ Aim # <<0, 0>> => Mag(impulse) \in (force - 2) .. (force + 2)
                 /\ Aim = <<0, 0>> => impulse = <<0, 0>>
                 /\ canvas = Prediction(gameState, physics.bodies, mouse, upgrades, gameData)
                       => launched'.vel = canvas.simVel]_vars

\* A rocket launched from the moving launch body with the upgraded launch
\* force at full pull, as the frame before had predicted.
C21_Witness ==
    /\ launched # null
    /\ canvas # null
    /\ canvas.simVel = launched.vel
    /\ canvas.aimTo = mouse
    /\ Earth.updated
    /\ upgrades["launch"].level = 2
    /\ Mag(VSub(launched.vel, EarthVel(Earth))) = 6 * gameData.scaleFactor * V
    /\ EarthVel(Earth) # <<0, 0>>

\* C22: the rocket is put at the launch body's position offset along the
\* aim: its position less the launch body's is a positive multiple of the
\* aim point less the launch body's position.
C22_LaunchPointAlongAim ==
    [][LaunchStep /\ Aim # <<0, 0>>
          => LET off == VSub(launched'.pos, EarthPos(Earth, gameData))
             IN  Along(off, Aim) /\ off # <<0, 0>>]_vars

\* C23: rendering the prediction changes no body, no field of gameState and
\* no upgrade, and a frame draws it exactly when the mode is IDLE (and the
\* launch body is there).
C23_PredictionReadOnly ==
    [][pc = "loop" /\ pc' = "event"
          => /\ physics' = physics
             /\ gameState' = gameState
             /\ upgrades' = upgrades
             /\ mouse' = mouse
             /\ canvas' # null <=> gameState.mode = "IDLE"
                                   /\ Find(physics.bodies, "target_start") # 0]_vars

\* The frame after a launch: a flight under way and no prediction drawn.
C23_Witness ==
    /\ gameState.mode = "FLYING"
    /\ pc = "event"
    /\ canvas = null
    /\ physics.rocket # null
    /\ physics.rocket.age > 0

(***************************************************************************)
(* Coins and upgrade levels                                                *)
(***************************************************************************)
\* C24: coins is a non-negative integer in every reachable state, however
\* the rewards of ended runs and the purchase attempts interleave.
C24_CoinsNonNegative == gameState.coins \in Nat

\* A run that earned a reward, with an upgrade bought and nothing left over.
C24_Witness ==
    /\ gameState.coins = 0
    /\ Len(endEvents) = 1
    /\ endEvents[1].earned > 0
    /\ \E type \in Tracks : upgrades[type].level > 1

\* C25: the level of every upgrade track lies in 1 .. max, with max = 5,
\* whatever purchases were attempted and whatever coins were earned.
C25_LevelsInRange ==
    \A type \in Tracks :
        /\ upgrades[type].max = 5
        /\ upgrades[type].level \in 1 .. upgrades[type].max

\* A track at its maximum with the price of another level in hand.
C25_Witness ==
    \E type \in Tracks :
        /\ upgrades[type].level = upgrades[type].max
        /\ gameState.coins >= upgrades[type].cost

(***************************************************************************)
(* SpecPause: attempts under the pause button, the tab being hidden and    *)
(* shown, the end of the run and every way back to IDLE.                   *)
(***************************************************************************)
NextPause ==
    \/ /\ gameData.accumulator < step
       /\ LoopStart(step)
    \/ \E p \in TickPositions(CorePositions) :
          /\ RocketAge < MaxAge
          /\ Tick(p)
    \/ LoopEnd
    \/ /\ gameState.coins < MaxCoins
       /\ inputEnd(FreePosition)
    \/ \E hidden \in BOOLEAN : visibilitychange(hidden)
    \/ togglePause
    \/ /\ physics.ghostKept < MaxKept
       /\ \E rnd \in RandomDraws :
             \/ retryBtn(rnd)
             \/ nextLevelBtn(rnd)
             \/ resetLevelBtn(rnd)
             \/ pauseRestartBtn(rnd)
             \/ \E val \in {1, 4} : changeLevel(val, rnd)

SpecPause == InitLoop /\ [][NextPause]_vars

(***************************************************************************)
(* The paused flag                                                         *)
(***************************************************************************)
\* C26: in every reachable state, isPaused implies mode = FLYING: the flag is
\* set only during a flight and every way out of FLYING (the end of the run,
\* retry, restart from the pause menu, a level change, the tab hidden and
\* shown) leaves it cleared.
C26_PausedOnlyFlying == gameState.isPaused => gameState.mode = "FLYING"

\* A flight of a later attempt, under way and paused, in the draft whose
\* visibilitychange handler also sets the flag.
C26_Witness ==
    /\ gameState.isPaused
    /\ gameState.mode = "FLYING"
    /\ RocketAge > 0
    /\ physics.ghostKept > 0
    /\ draft = "part000"

(***************************************************************************)
(* SpecBoot: the page from the moment input is listened to.  In            *)
(* src/game.js that is when init() has run.  In src/unnamed/part_000 it is *)
(* while init() awaits UIManager.init(): the window not measured, no body  *)
(* built, loop() not yet called.                                           *)
(***************************************************************************)
InitBoot ==
    \/ /\ Init
       /\ draft = "game"
    \/ /\ draft = "part000"
       /\ levelsConfig \in {"loaded", "null"}
       /\ gameData = [width |-> 0, height |-> 0, scaleFactor |-> 25, accumulator |-> 0,
                      pausedTime |-> 0, frameCount |-> 0]
       /\ gameState = [mode |-> "IDLE", level |-> 1, coins |-> 0, closestDist |-> Infinity,
                       isThrusting |-> FALSE, isPaused |-> FALSE]
       /\ physics = [bodies |-> <<>>, rocket |-> null, ghostTrail |-> <<>>, ghostKept |-> 0]
       /\ upgrades = InitUpgrades
       /\ dom = [message |-> "none", nextLevelBtn |-> "none"]
       /\ pc = "await"
       /\ steps = 0
       /\ endEvents = <<>>
       /\ \E win \in WindowSizes : mouse = Centre([width |-> win[1], height |-> win[2]])
       /\ canvas = null
       /\ launched = null
       /\ uncaught = "none"
       /\ explosions = <<>>
       /\ document = [hidden |-> FALSE, pausedAtHide |-> FALSE]

NextBoot ==
    \/ \E win \in WindowSizes, rnd \in RandomDraws : initResumed(win[1], win[2], rnd)
    \/ \E m \in MousePoints(gameData) : mousemove(m)
    \/ inputStart
    \/ inputEnd(FreePosition)
    \/ /\ gameData.accumulator < step
       /\ LoopStart(step)
    \/ /\ RocketAge < MaxAge
       /\ Tick(FreePosition)
    \/ LoopEnd

SpecBoot == InitBoot /\ [][NextBoot]_vars

(***************************************************************************)
(* Missing bodies                                                          *)
(***************************************************************************)
\* C27: in both drafts a launch attempt or a physics tick made while a
\* required body is missing (no launch body, no destination, no body at
\* all, the time before the first world is built included) is a no-op: no
\* exception is raised, the mode is unchanged and no rocket is created.
C27_MissingBodyNoOp ==
    [][/\ \/ Find(physics.bodies, "target_start") = 0
          \/ Find(physics.bodies, "target_end") = 0
       /\ \/ \E p \in AllPositions : inputEnd(p)
          \/ \E p \in AllPositions : Tick(p)
       => /\ uncaught' = uncaught
          /\ gameState'.mode = gameState.mode
          /\ physics'.rocket = physics.rocket]_vars

(***************************************************************************)
(* Explosions                                                              *)
(***************************************************************************)
\* C28: in both drafts every collision that ends the run as 'crashed' emits
\* an explosion at the position the rocket had at the moment of the
\* collision, and a landing emits none.
C28_ExplosionOnCrash ==
    [][Len(endEvents') > Len(endEvents)
          => LET e == endEvents'[Len(endEvents) + 1]
             IN  IF e.reason = "crashed"
                 THEN /\ Len(explosions') = Len(explosions) + 1
                      /\ explosions'[Len(explosions')].pos = physics.rocket.pos
                 ELSE IF e.reason = "landed"
                 THEN explosions' = explosions
                 ELSE TRUE]_vars

(***************************************************************************)
(* The grace period and the bodies after the launch body                   *)
(***************************************************************************)
\* C30: a contact with the launch body at age <= 100 is ignored in full and
\* does not cut the tick short: a body later in iteration order whose
\* collision disc also holds the rocket still ends the run in that tick (a
\* landing if the first such body is the destination, a crash otherwise),
\* and when there is none closestDist is still updated to the smaller of
\* its value and the rocket's distance to the destination.
C30_GraceNoShortCircuit ==
    [][/\ FlightTick
       /\ FirstHit(World) = Find(physics.bodies, "target_start")
       /\ physics.rocket.age <= GRACE_AGE
       => LET earth == Find(physics.bodies, "target_start")
              later == {i \in physics.rocket.pos.near : i > earth}
              d     == physics.rocket.pos.dMars
          IN  IF later # {}
              THEN /\ gameState'.mode = "ENDED"
                   /\ Ended
                   /\ LastEvent.success
                         = (physics.bodies[CHOOSE i \in later : \A j \in later : i <= j].type
                              = "target_end")
              ELSE gameState'.closestDist
                     = IF gameState.closestDist = Infinity \/ d < gameState.closestDist
                       THEN d ELSE gameState.closestDist]_vars

(***************************************************************************)
(* The rocket's trail                                                      *)
(***************************************************************************)
\* C31: the rocket's trail is sampled every 5th physics step: the rocket's
\* ages at two consecutive trail points are exactly 5 steps apart, whatever
\* number of steps a rendered frame executes, and the trail never holds
\* more than ROCKET_TRAIL_LIMIT points.
C31_TrailEveryFifthStep ==
    physics.rocket # null
       => /\ Len(physics.rocket.trail) <= ROCKET_TRAIL_LIMIT
          /\ \A i \in 1 .. Len(physics.rocket.trail) - 1 :
                physics.rocket.trail[i + 1] - physics.rocket.trail[i] = TRAIL_EVERY

(***************************************************************************)
(* SpecModes: attempts under the pointer, every reset button, the level    *)
(* selector and the window being resized, at any moment between frames;    *)
(* the frames of a flight are followed, one step a frame.                  *)
(***************************************************************************)
NextModes ==
    \/ /\ gameData.accumulator < step
       /\ gameState.mode = "FLYING"
       /\ LoopStart(step)
    \/ \E p \in TickPositions(CorePositions) :
          /\ RocketAge < MaxAge
          /\ Tick(p)
    \/ LoopEnd
    \/ inputStart
    \/ /\ gameState.coins < MaxCoins
       /\ inputEnd(FreePosition)
    \/ \E win \in WindowSizes, rnd \in RandomDraws :
          /\ physics.ghostKept < MaxKept
          /\ resize(win[1], win[2], rnd)
    \/ /\ physics.ghostKept < MaxKept
       /\ \E rnd \in RandomDraws :
             \/ retryBtn(rnd)
             \/ nextLevelBtn(rnd)
             \/ resetLevelBtn(rnd)
             \/ \E val \in {1, 4} : changeLevel(val, rnd)

SpecModes == InitLoop /\ [][NextModes]_vars

(***************************************************************************)
(* The rocket, the thrust flag and the mode                                *)
(***************************************************************************)
\* C32: in every reachable state physics.rocket is non-null exactly when
\* the mode is FLYING, under any interleaving of ticks, launch, end of run,
\* retry, next, level change and resize.
C32_RocketIffFlying == (physics.rocket # null) <=> (gameState.mode = "FLYING")

\* A flight under way on the last level in the small window, after an
\* earlier attempt: launched after a level change and a resize.
C32_Witness ==
    /\ physics.rocket # null
    /\ RocketAge > 0
    /\ gameState.level = 4
    /\ gameData.width = 320
    /\ physics.ghostKept > 0

\* C33: in every reachable state isThrusting implies mode = FLYING, so a
\* thrust begun in one flight is never still engaged when a later launch
\* starts.
C33_ThrustOnlyFlying == gameState.isThrusting => gameState.mode = "FLYING"

(***************************************************************************)
(* SpecTank: one flight clear of every body with thrust engaged until the  *)
(* tank is dry, and fuel tanks bought before and during the flight.        *)
(***************************************************************************)
NextTank ==
    \/ NextBurn
    \/ /\ Bought < MaxBought
       /\ buy("fuel")

SpecTank == InitShop /\ [][NextTank]_vars

(***************************************************************************)
(* Fuel and the fuel upgrade                                               *)
(***************************************************************************)
\* C34: in every reachable state the live rocket's fuel is at least 0 and at
\* most the capacity of the current fuel level (100 + 30 per level above 1,
\* in halves), purchases during the flight included, and a purchase never
\* changes the live rocket's fuel.
C34_FuelWithinTank ==
    /\ [](physics.rocket # null
            => /\ physics.rocket.fuel >= 0
               /\ physics.rocket.fuel <= 2 * (100 + 30 * (upgrades["fuel"].level - 1)))
    /\ [][upgrades' # upgrades /\ physics.rocket # null
             => /\ physics'.rocket # null
                /\ physics'.rocket.fuel = physics.rocket.fuel]_vars

\* A rocket launched with the base tank, flown dry, under a tank bought up
\* during the flight.
C34_Witness ==
    /\ physics.rocket # null
    /\ physics.rocket.fuel = 0
    /\ physics.rocket.age <= 201
    /\ upgrades["fuel"].level >= 3

(***************************************************************************)
(* SpecCoins: attempts that end, or are abandoned in flight through the    *)
(* reset button, the pause menu's restart or the level selector, with      *)
(* frames in every mode, one step a frame, and a purchase at any moment;   *)
(* launches go on until an attempt has earned coins.                       *)
(***************************************************************************)
NextCoins ==
    \/ /\ gameData.accumulator < step
       /\ LoopStart(step)
    \/ \E p \in TickPositions(ApproachPositions) :
          /\ RocketAge < MaxAge
          /\ Tick(p)
    \/ LoopEnd
    \/ /\ gameState.coins = 0
       /\ inputEnd(FreePosition)
    \/ togglePause
    \/ /\ physics.ghostKept < MaxKept
       /\ gameState.mode = "FLYING"
       /\ \E rnd \in RandomDraws :
             \/ resetLevelBtn(rnd)
             \/ pauseRestartBtn(rnd)
             \/ changeLevel(4, rnd)
    \/ \E type \in Tracks :
          /\ Bought < MaxPurchases
          /\ buy(type)

SpecCoins == InitLoop /\ [][NextCoins]_vars

(***************************************************************************)
(* What changes the coins                                                  *)
(***************************************************************************)
\* C35: the coins change only through the reward of an end of run or a
\* successful purchase; a flight abandoned by the reset button, the pause
\* menu's restart or a level change goes from FLYING to IDLE with no
\* endGame call and no coins awarded; a tick in IDLE or ENDED changes
\* neither the coins nor closestDist.
C35_CoinsFrame ==
    [][/\ gameState'.coins # gameState.coins
          => \/ Ended /\ gameState'.coins = gameState.coins + LastEvent.earned
             \/ /\ \E type \in Tracks :
                      /\ upgrades'[type].level = upgrades[type].level + 1
                      /\ gameState'.coins = gameState.coins - upgrades[type].cost
                /\ endEvents' = endEvents
       /\ gameState.mode = "FLYING" /\ gameState'.mode = "IDLE"
          => /\ gameState'.coins = gameState.coins
             /\ endEvents' = <<>>
       /\ steps' = steps + 1 /\ gameState.mode \in {"IDLE", "ENDED"}
          => /\ gameState'.coins = gameState.coins
             /\ gameState'.closestDist = gameState.closestDist]_vars

\* Back in IDLE on the last level, which only a level change during a
\* flight leads to here, after frames were rendered, with nothing earned.
C35_Witness ==
    /\ gameState.mode = "IDLE"
    /\ gameState.level = 4
    /\ gameState.coins = 0
    /\ gameData.frameCount > 0
    /\ physics.rocket = null

(***************************************************************************)
(* The level                                                               *)
(***************************************************************************)
\* C36: gameState.level always lies in 1 .. 4, the number of level
\* definitions, so createSolarSystem always finds the definition of the
\* level, after any sequence of next (with wrap-around), retry and level
\* selector changes.
C36_LevelInRange ==
    /\ gameState.level \in 1 .. 4
    /\ gameState.level \in DOMAIN LEVELS_DATA.levels

\* The first level rebuilt, idle, with the reward of a landing in hand and
\* the ghost trail emptied, as the next-level button leaves it after the
\* last level.
C36_Witness ==
    /\ gameState.level = 1
    /\ gameState.mode = "IDLE"
    /\ gameState.coins >= LANDING_REWARD
    /\ physics.ghostTrail = <<>>
    /\ endEvents = <<>>
    /\ Len(physics.bodies) = 17 + LEVELS_DATA.levels[1].asteroidCount

(***************************************************************************)
(* The bodies' orbits                                                      *)
(***************************************************************************)
\* C37: in every tick in which gravity and collisions are evaluated against
\* a live rocket, every orbiting body already sits on its orbit, with the
\* position and velocity its update() gives it: none is still where and as
\* its constructor left it, even when the launch follows a rebuild of the
\* world before any physics step.
C37_BodiesOnOrbit ==
    [][FlightTick
          => \A i \in DOMAIN physics.bodies :
                physics.bodies[i].orbitCenter \/ physics.bodies[i].parentBody # 0
                   => physics.bodies[i].updated]_vars

\* C38: every body on a parent's orbit (the moon, the ring obstacles) names
\* a parent that is in the current body collection and comes before it in
\* iteration order (the launch body for the moon, the ringed planet for the
\* ring obstacles), so the parent is updated first in each tick, and once a
\* tick is over the child's position and velocity are those computed from
\* the parent's state as that tick left it.
C38_ParentFirst ==
    \A i \in DOMAIN physics.bodies :
       LET b == physics.bodies[i]
       IN  b.parentBody # 0
              => /\ b.parentBody \in DOMAIN physics.bodies
                 /\ b.parentBody < i
                 /\ physics.bodies[b.parentBody].type
                       = (IF b.type = "moon" THEN "target_start" ELSE "saturn")
                 /\ physics.bodies[b.parentBody].orbitCenter
                 /\ b.updated = physics.bodies[b.parentBody].updated
                 /\ b.parentAngle = physics.bodies[b.parentBody].orbitAngle

\* A world rebuilt after a flight, its bodies moved by ticks since, an odd
\* number of them.
C38_Witness ==
    /\ physics.ghostKept > 0
    /\ gameState.level > 1
    /\ physics.bodies[3].updated
    /\ physics.bodies[3].parentAngle = 1
    /\ physics.bodies[17].parentAngle = 1

(***************************************************************************)
(* The player's pause and the tab                                          *)
(***************************************************************************)
\* C39: in src/unnamed/part_000 a pause chosen by the player survives the
\* tab being hidden and shown again: if the game was paused when the
\* document became hidden and is still paused when it becomes visible, it
\* is paused after that.
C39_PlayerPauseSurvives ==
    [][/\ draft = "part000"
       /\ document.hidden /\ ~document'.hidden
       /\ document.pausedAtHide
       /\ gameState.isPaused
       => gameState'.isPaused]_vars

====
